---- MODULE Spec2Model ----
(***************************************************************************)
(* Model of csgo/parser/wrapper.c: the C shim that registers the Python    *)
(* extension module "wrapper" with its one callable "parse" (bound to the  *)
(* Go function parse_demo) and that converts the Python argument tuple to  *)
(* native C values with PyArg_ParseTuple and the format "sbpLspsps".       *)
(*                                                                         *)
(* Memory is modelled in bytes.  Every conversion destination is a region  *)
(* of caller memory: the storage of its declared C type followed by        *)
(* TailLen bytes of whatever the caller keeps behind it.  Python integers  *)
(* are arbitrary-precision: a sign and a little-endian base-256 magnitude. *)
(* C values lie in memory least significant byte first, with the sizes of  *)
(* the LP64 ABI.                                                           *)
(*                                                                         *)
(* The file builds against any CPython 3; which objects the integer units  *)
(* take, and whether the garbage collector runs inside an allocation,      *)
(* depend on the version, so the version built against is part of the      *)
(* state.  Neither a conversion nor an initialization is one step.  A unit *)
(* that runs the Python code of an argument (__bool__, __len__, __index__, *)
(* __int__) hands control to that code, which answers as it pleases each   *)
(* time it is called.  A conversion that fails makes an exception object,  *)
(* and PyModule_Create makes a module object after it has given the        *)
(* definition its index: up to CPython 3.11 such an allocation can run the *)
(* collector, and with it the Python code of finalizers.  While any such   *)
(* Python code runs, the module can be initialized and parse can be        *)
(* called, by that code or by another thread.  The C code between these    *)
(* points runs under the interpreter lock.                                 *)
(***************************************************************************)
EXTENDS Integers, Sequences, FiniteSets

(* ------------------------------ bounds --------------------------------- *)

\* bytes of caller memory tracked behind each destination's own storage
TailLen == 3
\* longest argument tuple a caller passes
MaxArgs == 10
\* module initializations in one process
MaxInits == 2
\* calls of the module's attributes in one process, nested ones included
MaxCalls == 2

(* --------------------------- Python values ----------------------------- *)

\* A Python object: its type t and, for the built-in types, its content d
\* with sign neg.
\*   str    d = the code points          bytes  d = the bytes
\*   int    neg, d = sign and base-256 magnitude, least significant first
\*   bool   d = <<1>> for True, <<>> for False (an int subclass)
\*   float  d = <<1>> for a non-zero value, <<>> for 0.0
\*   None   d = <<>>
\*   object an instance of a class that defines __bool__ and nothing else
\*   lenobj an instance of a class that defines __len__ and nothing else
\*   index  an instance of a class that defines __index__ and nothing else
\*   intobj an instance of a class that defines __int__ and nothing else
\* What the method of an object answers is not part of the object: it is
\* Python code, run at every conversion.
PyStr(cps) == [t |-> "str", neg |-> FALSE, d |-> cps]
PyBytes(bs) == [t |-> "bytes", neg |-> FALSE, d |-> bs]
PyInt(neg, mag) == [t |-> "int", neg |-> neg, d |-> mag]
PyBool(b) == [t |-> "bool", neg |-> FALSE, d |-> IF b THEN <<1>> ELSE <<>>]
PyFloat(nonzero) == [t |-> "float", neg |-> FALSE, d |-> IF nonzero THEN <<1>> ELSE <<>>]
PyNone == [t |-> "none", neg |-> FALSE, d |-> <<>>]
PyObject == [t |-> "object", neg |-> FALSE, d |-> <<>>]
PyLenOnly == [t |-> "lenobj", neg |-> FALSE, d |-> <<>>]
PyIndex == [t |-> "index", neg |-> FALSE, d |-> <<>>]
PyIntOnly == [t |-> "intobj", neg |-> FALSE, d |-> <<>>]

\* "a", "", "e-acute", "a\0b", a lone surrogate
StrVals ==
    { PyStr(<<97>>), PyStr(<<>>), PyStr(<<233>>), PyStr(<<97, 0, 98>>),
      PyStr(<<55296>>) }

\* 5, 0, 255, 256, 300, -1, 2^31-1, 2^31, 2^63-1, 2^63, -2^63
IntVals ==
    { PyInt(FALSE, <<5>>), PyInt(FALSE, <<>>), PyInt(FALSE, <<255>>),
      PyInt(FALSE, <<0, 1>>), PyInt(FALSE, <<44, 1>>), PyInt(TRUE, <<1>>),
      PyInt(FALSE, <<255, 255, 255, 127>>), PyInt(FALSE, <<0, 0, 0, 128>>),
      PyInt(FALSE, <<255, 255, 255, 255, 255, 255, 255, 127>>),
      PyInt(FALSE, <<0, 0, 0, 0, 0, 0, 0, 128>>),
      PyInt(TRUE, <<0, 0, 0, 0, 0, 0, 0, 128>>) }

ObjectVals == { PyObject, PyLenOnly, PyIndex, PyIntOnly }

PyVals ==
    StrVals \cup IntVals \cup ObjectVals
        \cup { PyBool(TRUE), PyBool(FALSE), PyFloat(TRUE), PyNone, PyBytes(<<120>>) }

\* what the Python code of an object answers when a unit calls it: the value
\* it returns, of type t, or the exception it raises
Returned(t, neg, mag) == [exc |-> "none", t |-> t, neg |-> neg, d |-> mag]
Raises(exc) == [exc |-> exc, t |-> "none", neg |-> FALSE, d |-> <<>>]
NoAnswer == Returned("none", FALSE, <<>>)

\* __bool__ returns True, returns False, returns the int 1, raises RuntimeError
BoolAnswers ==
    { Returned("bool", FALSE, <<1>>), Returned("bool", FALSE, <<>>),
      Returned("int", FALSE, <<1>>), Raises("RuntimeError") }

\* __len__ returns 0, 5, -1, 2^63, "a", raises RuntimeError
LenAnswers ==
    { Returned("int", FALSE, <<>>), Returned("int", FALSE, <<5>>),
      Returned("int", TRUE, <<1>>),
      Returned("int", FALSE, <<0, 0, 0, 0, 0, 0, 0, 128>>),
      Returned("str", FALSE, <<97>>), Raises("RuntimeError") }

\* __index__ or __int__ returns 5, returns 300, returns "a", raises ValueError
IntAnswers ==
    { Returned("int", FALSE, <<5>>), Returned("int", FALSE, <<44, 1>>),
      Returned("str", FALSE, <<97>>), Raises("ValueError") }

\* The CPython the file is built against, one version for each behaviour:
\*   3.7   (3.0 to 3.7)    PyLong_AsLong and PyLong_AsLongLong call __int__
\*                         on an object that is not an int, never __index__
\*   3.9   (3.8 and 3.9)   they call __index__; without it __int__, with a
\*                         DeprecationWarning
\*   3.11  (3.10 and 3.11) they call __index__, never __int__
\*   3.13  (3.12 and on)   as 3.11, and the collector no longer runs inside
\*                         an allocation but between bytecodes only
CPythonBuilds == { "3.7", "3.9", "3.11", "3.13" }
TakesIndex(cp) == cp /= "3.7"
TakesInt(cp) == cp \in {"3.7", "3.9"}
CollectsInside(cp) == cp /= "3.13"

(* ----------------------------- C values -------------------------------- *)

\* sizes of the C types of the LP64 ABI, in bytes
SizeOf(ctype) ==
    CASE ctype = "char*" -> 8
      [] ctype = "long" -> 8
      [] ctype = "long long" -> 8
      [] ctype = "Py_ssize_t" -> 8
      [] ctype = "int64_t" -> 8
      [] ctype = "int" -> 4
      [] ctype = "bool" -> 1
      [] ctype = "unsigned char" -> 1

\* magnitude mag padded with zero bytes (or cut) to n bytes
Pad(mag, n) == [k \in 1..n |-> IF k <= Len(mag) THEN mag[k] ELSE 0]

\* bs + 1 on n = Len(bs) bytes, least significant first, carry dropped
RECURSIVE AddOne(_)
AddOne(bs) ==
    IF bs = <<>> THEN <<>>
    ELSE IF bs[1] < 255 THEN <<bs[1] + 1>> \o Tail(bs)
    ELSE <<0>> \o AddOne(Tail(bs))

\* the n-byte two's complement of the integer (neg, mag), least significant first
Twos(neg, mag, n) ==
    IF neg /\ mag /= <<>>
    THEN AddOne([k \in 1..n |-> 255 - Pad(mag, n)[k]])
    ELSE Pad(mag, n)

\* whether the integer (neg, mag) is in the range of a signed n-byte C type
FitsSigned(neg, mag, n) ==
    \/ Len(mag) < n
    \/ Len(mag) = n /\ mag[n] < 128
    \/ neg /\ Len(mag) = n /\ mag[n] = 128 /\ \A k \in 1..(n - 1) : mag[k] = 0

(* ------------------------------ UTF-8 ---------------------------------- *)

IsSurrogate(cp) == cp >= 55296 /\ cp <= 57343

\* the UTF-8 bytes of one code point below 65536
EncodeCodePoint(cp) ==
    IF cp < 128 THEN <<cp>>
    ELSE IF cp < 2048 THEN <<192 + (cp \div 64), 128 + (cp % 64)>>
    ELSE <<224 + (cp \div 4096), 128 + ((cp \div 64) % 64), 128 + (cp % 64)>>

RECURSIVE PyUnicode_AsUTF8(_)
PyUnicode_AsUTF8(cps) ==
    IF cps = <<>> THEN <<>>
    ELSE EncodeCodePoint(Head(cps)) \o PyUnicode_AsUTF8(Tail(cps))

\* the C string at the start of a buffer: its bytes before the first NUL
RECURSIVE CString(_)
CString(buf) ==
    IF buf = <<>> \/ Head(buf) = 0 THEN <<>>
    ELSE <<Head(buf)>> \o CString(Tail(buf))

(* --------------------------- the str heap ------------------------------ *)

\* The UTF-8 buffers of the str objects, by content; the buffer of the k-th
\* lives at address 16 * k.  A char* holds such an address.
StrTable == <<<<97>>, <<>>, <<233>>, <<97, 0, 98>>, <<55296>>>>

AddressOf(cps) == 16 * (CHOOSE k \in 1..Len(StrTable) : StrTable[k] = cps)

\* the buffer a char* value points to: the UTF-8 bytes and the final NUL
BufferAt(addr) == PyUnicode_AsUTF8(StrTable[addr \div 16]) \o <<0>>

(* ------------------- PyArg_ParseTuple, unit by unit -------------------- *)

\* a region of memory with bs stored at its start; bytes of bs that fall
\* behind the tracked region are not tracked
Store(region, bs) ==
    [k \in 1..Len(region) |-> IF k <= Len(bs) THEN bs[k] ELSE region[k]]

\* the C type a format unit stores through its destination pointer
UnitType(unit) ==
    CASE unit = "s" -> "char*"
      [] unit = "b" -> "unsigned char"
      [] unit = "p" -> "int"
      [] unit = "L" -> "long long"

\* whether a unit runs Python code of the argument: "p" the __bool__ or
\* __len__ of an object that has one; "b" and "L" the __index__ or __int__
\* that the CPython built against calls on an object that is not an int
RunsPython(unit, arg, cp) ==
    CASE unit = "p" -> arg.t \in {"object", "lenobj"}
      [] unit \in {"b", "L"} ->
            \/ arg.t = "index" /\ TakesIndex(cp)
            \/ arg.t = "intobj" /\ TakesInt(cp)
      [] OTHER -> FALSE

\* what that code can answer; under 3.8 and 3.9 the answer of __int__ is
\* followed by a DeprecationWarning, which the warning filters can raise
Answers(unit, arg, cp) ==
    IF unit = "p" THEN (IF arg.t = "object" THEN BoolAnswers ELSE LenAnswers)
    ELSE IntAnswers
            \cup (IF arg.t = "intobj" /\ cp = "3.9"
                  THEN {Raises("DeprecationWarning")} ELSE {})

\* whether PyLong_AsLong and PyLong_AsLongLong take the object for an
\* integer: an int (a bool is one), or an object whose __index__ or __int__
\* the CPython built against calls
IsIntegral(arg, cp) == arg.t \in {"int", "bool"} \/ RunsPython("b", arg, cp)

\* The outcome of a unit: the region as the unit leaves it and exc, "none"
\* when the unit converted.  made tells whether the unit made the exception
\* object itself, by an allocation, or the Python code of the argument had
\* raised it.
Converted(region) == [exc |-> "none", region |-> region, made |-> FALSE]
Failed(exc, region) == [exc |-> exc, region |-> region, made |-> TRUE]
Passed(exc, region) == [exc |-> exc, region |-> region, made |-> FALSE]

\* the integer of an argument of an integer unit: the int itself, or what
\* the object's __index__ or __int__ answered, which has to be an int
IntegerOf(arg, ans) ==
    IF arg.t \in {"int", "bool"} THEN Returned("int", arg.neg, arg.d) ELSE ans

\* the truth test: an object with __bool__ answers by it, and has to answer
\* a bool; an object with __len__ is true when its length, which has to be
\* an integer from 0 to the largest Py_ssize_t, is not 0; an object with
\* neither is true; a built-in value is true unless it is zero or empty
PyObject_IsTrue(arg, ans) ==
    CASE arg.t = "object" ->
            IF ans.exc /= "none" THEN [exc |-> ans.exc, truth |-> FALSE]
            ELSE IF ans.t /= "bool" THEN [exc |-> "TypeError", truth |-> FALSE]
            ELSE [exc |-> "none", truth |-> ans.d /= <<>>]
      [] arg.t = "lenobj" ->
            IF ans.exc /= "none" THEN [exc |-> ans.exc, truth |-> FALSE]
            ELSE IF ans.t /= "int" THEN [exc |-> "TypeError", truth |-> FALSE]
            ELSE IF ans.neg /\ ans.d /= <<>>
            THEN [exc |-> "ValueError", truth |-> FALSE]
            ELSE IF ~FitsSigned(ans.neg, ans.d, SizeOf("Py_ssize_t"))
            THEN [exc |-> "OverflowError", truth |-> FALSE]
            ELSE [exc |-> "none", truth |-> ans.d /= <<>>]
      [] arg.t \in {"index", "intobj"} -> [exc |-> "none", truth |-> TRUE]
      [] OTHER -> [exc |-> "none", truth |-> arg.d /= <<>>]

\* "s": str -> const char*, the object's UTF-8 buffer
ConvertS(arg, region) ==
    IF arg.t /= "str" THEN Failed("TypeError", region)
    ELSE IF \E k \in 1..Len(arg.d) : IsSurrogate(arg.d[k])
    THEN Failed("UnicodeEncodeError", region)
    ELSE IF Len(CString(PyUnicode_AsUTF8(arg.d))) /= Len(PyUnicode_AsUTF8(arg.d))
    THEN Failed("ValueError", region)
    ELSE Converted(Store(region,
            Pad(<<AddressOf(arg.d)>>, SizeOf(UnitType("s")))))

\* "b": int -> unsigned char, range checked
ConvertB(arg, region, ans, cp) ==
    LET n == IntegerOf(arg, ans)
    IN  IF ~IsIntegral(arg, cp) THEN Failed("TypeError", region)
        ELSE IF n.exc /= "none" THEN Passed(n.exc, region)
        ELSE IF n.t /= "int" THEN Failed("TypeError", region)
        ELSE IF ~FitsSigned(n.neg, n.d, SizeOf("long"))
        THEN Failed("OverflowError", region)
        ELSE IF n.neg /\ n.d /= <<>> THEN Failed("OverflowError", region)
        ELSE IF Len(n.d) > SizeOf(UnitType("b")) THEN Failed("OverflowError", region)
        ELSE Converted(Store(region, Pad(n.d, SizeOf(UnitType("b")))))

\* "p": any object -> int, 1 when the object is true and 0 when it is not;
\* fails when the truth test fails
ConvertP(arg, region, ans) ==
    LET tt == PyObject_IsTrue(arg, ans)
    IN  IF tt.exc /= "none"
        THEN (IF ans.exc /= "none" THEN Passed(tt.exc, region)
              ELSE Failed(tt.exc, region))
        ELSE Converted(Store(region,
                Pad(IF tt.truth THEN <<1>> ELSE <<>>, SizeOf(UnitType("p")))))

\* "L": int -> long long, overflow checked
ConvertL(arg, region, ans, cp) ==
    LET n == IntegerOf(arg, ans)
    IN  IF ~IsIntegral(arg, cp) THEN Failed("TypeError", region)
        ELSE IF n.exc /= "none" THEN Passed(n.exc, region)
        ELSE IF n.t /= "int" THEN Failed("TypeError", region)
        ELSE IF ~FitsSigned(n.neg, n.d, SizeOf(UnitType("L")))
        THEN Failed("OverflowError", region)
        ELSE Converted(Store(region, Twos(n.neg, n.d, SizeOf(UnitType("L")))))

\* one unit, given what the argument's code answered if the unit ran it
ConvertUnit(unit, arg, region, ans, cp) ==
    CASE unit = "s" -> ConvertS(arg, region)
      [] unit = "b" -> ConvertB(arg, region, ans, cp)
      [] unit = "p" -> ConvertP(arg, region, ans)
      [] unit = "L" -> ConvertL(arg, region, ans, cp)

\* The state of a conversion: ret 1 when every unit is converted, 0 when it
\* failed (exc at position pos, position 0 for the number of arguments), -1
\* while unit at waits for the Python code of its argument; mem holds what
\* the units before have stored; made tells whether the conversion made the
\* exception object itself.
Done(mem) ==
    [ret |-> 1, exc |-> "none", pos |-> 0, at |-> 0, mem |-> mem, made |-> FALSE]
Error(exc, i, mem, made) ==
    [ret |-> 0, exc |-> exc, pos |-> i, at |-> 0, mem |-> mem, made |-> made]
InPython(i, mem) ==
    [ret |-> -1, exc |-> "none", pos |-> 0, at |-> i, mem |-> mem, made |-> FALSE]

\* the units from the i-th on, left to right, up to the first that runs
\* Python code; the first failure ends the conversion and leaves what the
\* earlier units stored
RECURSIVE ConvertFrom(_, _, _, _, _)
ConvertFrom(fmt, args, mem, i, cp) ==
    IF i > Len(fmt) THEN Done(mem)
    ELSE IF RunsPython(fmt[i], args[i], cp) THEN InPython(i, mem)
    ELSE LET r == ConvertUnit(fmt[i], args[i], mem[i], NoAnswer, cp)
         IN  IF r.exc /= "none" THEN Error(r.exc, i, mem, r.made)
             ELSE ConvertFrom(fmt, args, [mem EXCEPT ![i] = r.region], i + 1, cp)

\* the conversion goes on when the code that unit i ran has answered ans
ConvertAfter(fmt, args, mem, i, ans, cp) ==
    LET r == ConvertUnit(fmt[i], args[i], mem[i], ans, cp)
    IN  IF r.exc /= "none" THEN Error(r.exc, i, mem, r.made)
        ELSE ConvertFrom(fmt, args, [mem EXCEPT ![i] = r.region], i + 1, cp)

\* a format without "|" takes exactly as many arguments as it has units
PyArg_ParseTuple(args, fmt, mem, cp) ==
    IF Len(args) /= Len(fmt) THEN Error("TypeError", 0, mem, TRUE)
    ELSE ConvertFrom(fmt, args, mem, 1, cp)

(* ------------------------------ wrapper.c ------------------------------ *)

\* the format of PyArg_ParseTuple_parse_demo, unit by unit
Format_Short == <<"s", "b", "p", "L", "s", "p", "s", "p">>
Format_Swapped == <<"s", "p", "b", "L", "s", "p", "s", "p", "s">>
Format == <<"s", "b", "p", "L", "s", "p", "s", "p", "s">>

\* the declared types of the nine destinations: dem_path, parse_rate,
\* parse_frames, trade_time, round_buy, damages_rolled, demo_id,
\* json_indentation, outpath
DestType ==
    <<"char*", "int", "bool", "int64_t", "char*", "bool", "char*", "bool", "char*">>

\* the call of PyArg_ParseTuple up to its end, to the first unit that runs
\* Python code or to the exception it makes, and its continuation from a
\* unit that ran Python code
PyArg_ParseTuple_parse_demo(args, mem, cp) == PyArg_ParseTuple(args, Format, mem, cp)
PyArg_ParseTuple_parse_demo_after(args, mem, i, ans, cp) ==
    ConvertAfter(Format, args, mem, i, ans, cp)


\* the method table, ended by its sentinel
methods_NoArgs ==
    << [ml_name |-> "parse", ml_meth |-> "parse_demo", ml_flags |-> "METH_NOARGS"],
       [ml_name |-> "NULL", ml_meth |-> "NULL", ml_flags |-> "0"] >>
methods_Misnamed ==
    << [ml_name |-> "parse_demo", ml_meth |-> "parse_demo", ml_flags |-> "METH_VARARGS"],
       [ml_name |-> "NULL", ml_meth |-> "NULL", ml_flags |-> "0"] >>
methods_Two ==
    << [ml_name |-> "parse", ml_meth |-> "parse_demo", ml_flags |-> "METH_VARARGS"],
       [ml_name |-> "parse_demo", ml_meth |-> "parse_demo", ml_flags |-> "METH_VARARGS"],
       [ml_name |-> "NULL", ml_meth |-> "NULL", ml_flags |-> "0"] >>
methods ==
    << [ml_name |-> "parse", ml_meth |-> "parse_demo", ml_flags |-> "METH_VARARGS"],
       [ml_name |-> "NULL", ml_meth |-> "NULL", ml_flags |-> "0"] >>

\* the module definition as the file initializes it; PyModuleDef_HEAD_INIT
\* leaves m_base.m_index 0
module ==
    [m_index |-> 0, m_name |-> "wrapper", m_doc |-> "NULL", m_size |-> -1,
     m_methods |-> methods]

\* the entries of a method table before its sentinel
RECURSIVE PyModule_AddFunctions(_)
PyModule_AddFunctions(ml) ==
    IF ml = <<>> \/ Head(ml).ml_name = "NULL" THEN <<>>
    ELSE <<Head(ml)>> \o PyModule_AddFunctions(Tail(ml))

\* PyModule_Create: the definition gets its index the first time it is used;
\* every call makes a new module object
PyModule_Create(def, last) ==
    [def |-> IF def.m_index = 0 THEN [def EXCEPT !.m_index = last + 1] ELSE def,
     last |-> IF def.m_index = 0 THEN last + 1 ELSE last,
     mod |-> [name |-> def.m_name, functions |-> PyModule_AddFunctions(def.m_methods)]]

InitResult_Reset(def, last) == PyModule_Create([def EXCEPT !.m_index = 0], last)
InitResult(def, last) == PyModule_Create(def, last)


(* ------------------------------ callers -------------------------------- *)

\* a well-typed argument tuple: ("a", 5, True, 5, "a", False, "e-acute", True, "")
BaseArgs ==
    << PyStr(<<97>>), PyInt(FALSE, <<5>>), PyBool(TRUE), PyInt(FALSE, <<5>>),
       PyStr(<<97>>), PyBool(FALSE), PyStr(<<233>>), PyBool(TRUE), PyStr(<<>>) >>

\* the first n values of BaseArgs followed by None values
ArgsOfLength(n) == [k \in 1..n |-> IF k <= Len(BaseArgs) THEN BaseArgs[k] ELSE PyNone]

\* the tuples callers pass: every length up to MaxArgs, and BaseArgs with any
\* value at any one position
ArgTuples ==
    { ArgsOfLength(n) : n \in 0..MaxArgs }
        \cup { [BaseArgs EXCEPT ![i] = v] : i \in 1..Len(BaseArgs), v \in PyVals }

\* the tuples of the calls of parse that overlap, one beginning while the
\* invocation of another is under way: no arguments, BaseArgs, and BaseArgs
\* with an object with __bool__ for parse_frames and None for trade_time
NestedArgTuples ==
    { <<>>, BaseArgs, [BaseArgs EXCEPT ![3] = PyObject, ![4] = PyNone] }

\* what the destinations hold before a conversion, byte for byte
FillBytes == {0, 170}

\* the caller's nine destinations, each with the bytes behind it, holding f
Locals(f) ==
    [i \in 1..Len(DestType) |-> [k \in 1..(SizeOf(DestType[i]) + TailLen) |-> f]]

\* the nine converted values as the caller reads them: the bytes of each
\* destination's declared type
Observed(m) == [i \in 1..Len(DestType) |-> SubSeq(m[i], 1, SizeOf(DestType[i]))]

\* the bytes behind each destination
Behind(m) ==
    [i \in 1..Len(DestType) |-> SubSeq(m[i], SizeOf(DestType[i]) + 1, Len(m[i]))]

Nothing == [kind |-> "none", id |-> "none"]
Raised(exc) == [kind |-> "error", id |-> exc]
NoConv == [ret |-> -1, exc |-> "none", pos |-> 0]
NoPrev == [conv |-> NoConv, vals |-> <<>>]

\* what the parser produces once it runs: a result object, or an error
ParserOutcomes == { [kind |-> "object", id |-> "result"], Raised("ParserError") }

\* One call of an attribute of the module, from the caller's side and, once
\* parse_demo is invoked, that invocation's frame:
\*   pc       "entered"; "python" (a unit waits for the Python code of its
\*            argument); "raising" (the conversion has failed and makes its
\*            exception object); "converted" (PyArg_ParseTuple_parse_demo
\*            has returned); "returning"; "idle" (the call is over)
\*   id       the number of the call, in order of beginning
\*   callee   the attribute the caller called
\*   kw       whether the caller passed keyword arguments
\*   args     the argument tuple
\*   fill     what parse_demo's destinations held at first
\*   mem      parse_demo's destinations
\*   at       the unit that waits, when pc = "python"
\*   ans      what the Python code of an argument answered last
\*   conv     the outcome of the conversion, which
\*            PyArg_ParseTuple_parse_demo returns
\*   entered  invocations of parse_demo in this call
\*   parsed   runs of the parser in this call
\*   out      what parse_demo returned
\*   ret      what the caller received
\*   again    whether the call repeats the tuple of the call before
\*   prev     the conversion outcome of the call it repeats
NoCall ==
    [pc |-> "none", id |-> 0, callee |-> "none", kw |-> FALSE, args |-> <<>>,
     fill |-> 0, mem |-> <<>>, at |-> 0, ans |-> NoAnswer, conv |-> NoConv,
     entered |-> 0, parsed |-> 0, out |-> Nothing, ret |-> Nothing,
     again |-> FALSE, prev |-> NoPrev]

\* the place of a frame whose invocation has returned
Gone == [NoCall EXCEPT !.pc = "gone"]

(* ------------------------------- state --------------------------------- *)

VARIABLES
    cpython,            \* the CPython the extension is built against
    moduleDef,          \* the static struct PyModuleDef module
    last_module_index,  \* the interpreter's count of module definitions
    initing,            \* invocations of PyInit_wrapper under way
    handles,            \* the module objects PyInit_wrapper has returned
    frames,             \* the invocations of parse_demo, in order of entry
    last,               \* the call that was over last
    ncalls              \* calls so far

vars ==
    << cpython, moduleDef, last_module_index, initing, handles, frames, last,
       ncalls >>

Init ==
    /\ cpython \in CPythonBuilds
    /\ moduleDef = module
    /\ last_module_index = 0
    /\ initing = 0
    /\ handles = <<>>
    /\ frames = <<>>
    /\ last = NoCall
    /\ ncalls = 0

\* the invocations of parse_demo under way
InFlight == { c \in 1..Len(frames) : frames[c].pc /= "gone" }

\* whether an invocation of parse_demo is at a point where Python code runs:
\* in the code of an argument, or in an allocation that runs the collector
AtPython(f) == f.pc = "python" \/ (f.pc = "raising" /\ CollectsInside(cpython))

\* whether every invocation of PyInit_wrapper under way is at such a point:
\* the allocation of the module object
InitsAtPython == initing = 0 \/ CollectsInside(cpython)

\* C code of the extension runs under the interpreter lock: while an
\* invocation is anywhere but at such a point, nothing else runs.  Otherwise
\* Python code runs: the top of a thread, the code of an argument, or a
\* finalizer.
PythonRuns == InitsAtPython /\ \A c \in InFlight : AtPython(frames[c])

\* the same, seen from invocation c of parse_demo
OthersAtPython(c) == InitsAtPython /\ \A k \in InFlight \ {c} : AtPython(frames[k])

(* ------------------------------ actions -------------------------------- *)

\* PyInit_wrapper is called: PyModule_Create gives the definition its index
\* and then allocates the module object
PyInit_wrapper ==
    /\ PythonRuns
    /\ Len(handles) + initing < MaxInits
    /\ LET r == InitResult(moduleDef, last_module_index)
       IN  /\ moduleDef' = r.def
           /\ last_module_index' = r.last
    /\ initing' = initing + 1
    /\ UNCHANGED << cpython, handles, frames, last, ncalls >>

\* PyInit_wrapper returns the module object
PyInit_wrapper_return ==
    /\ initing > 0
    /\ \A c \in InFlight : AtPython(frames[c])
    /\ handles' = Append(handles, InitResult(moduleDef, last_module_index).mod)
    /\ initing' = initing - 1
    /\ UNCHANGED << cpython, moduleDef, last_module_index, frames, last, ncalls >>

\* how the interpreter answers a call of attribute name of module object mod
\* with the positional arguments a and, when k, keyword arguments
Dispatch(mod, name, a, k) ==
    LET found == SelectSeq(mod.functions, LAMBDA e : e.ml_name = name)
    IN  IF found = <<>> THEN [invoke |-> FALSE, exc |-> "AttributeError"]
        ELSE IF k THEN [invoke |-> FALSE, exc |-> "TypeError"]
        ELSE IF found[1].ml_flags = "METH_NOARGS" /\ a /= <<>>
        THEN [invoke |-> FALSE, exc |-> "TypeError"]
        ELSE [invoke |-> TRUE, exc |-> "none"]

\* Python code calls an attribute of a module object: parse_demo is entered,
\* or the interpreter raises by itself
Begin(h, name, a, k, ag, pv) ==
    /\ PythonRuns
    /\ ncalls < MaxCalls
    /\ h \in 1..Len(handles)
    /\ ncalls' = ncalls + 1
    /\ LET d == Dispatch(handles[h], name, a, k)
           call == [NoCall EXCEPT !.id = ncalls + 1, !.callee = name, !.kw = k,
                                  !.args = a, !.again = ag, !.prev = pv]
       IN  IF d.invoke
           THEN /\ frames' = Append(frames,
                      [call EXCEPT !.pc = "entered", !.entered = 1])
                /\ last' = NoCall
           ELSE /\ last' = [call EXCEPT !.pc = "idle", !.ret = Raised(d.exc)]
                /\ frames' = frames
    /\ UNCHANGED << cpython, moduleDef, last_module_index, initing, handles >>

Call(h, name, a, k) == Begin(h, name, a, k, FALSE, NoPrev)

\* the caller calls parse once more with the tuple of the call before
CallAgain(h) ==
    /\ InFlight = {}
    /\ last.conv /= NoConv
    /\ Begin(h, "parse", last.args, FALSE, TRUE,
             [conv |-> last.conv, vals |-> Observed(last.mem)])

\* the frame of an invocation after the conversion has gone as far as r
Progress(f, r) ==
    [f EXCEPT !.mem = r.mem, !.at = r.at,
              !.conv = IF r.ret = -1 THEN NoConv
                       ELSE [ret |-> r.ret, exc |-> r.exc, pos |-> r.pos],
              !.pc = IF r.ret = -1 THEN "python"
                     ELSE IF r.ret = 0 /\ r.made THEN "raising"
                     ELSE "converted"]

\* parse_demo converts its arguments into its nine locals, up to the end of
\* the conversion, to the first unit that runs Python code, or to the
\* exception the conversion makes
parse_demo_convert(c) ==
    /\ c \in 1..Len(frames)
    /\ frames[c].pc = "entered"
    /\ \E f \in FillBytes :
          frames' = [frames EXCEPT ![c] =
              Progress([@ EXCEPT !.fill = f],
                       PyArg_ParseTuple_parse_demo(frames[c].args, Locals(f),
                                                   cpython))]
    /\ UNCHANGED << cpython, moduleDef, last_module_index, initing, handles,
                    last, ncalls >>

\* the Python code of the argument at the waiting unit answers, and the
\* conversion goes on
parse_demo_resume(c) ==
    /\ c \in 1..Len(frames)
    /\ frames[c].pc = "python"
    /\ OthersAtPython(c)
    /\ \E ans \in Answers(Format[frames[c].at], frames[c].args[frames[c].at], cpython) :
          frames' = [frames EXCEPT ![c] =
              Progress([@ EXCEPT !.ans = ans],
                       PyArg_ParseTuple_parse_demo_after(
                              frames[c].args, frames[c].mem, frames[c].at,
                              ans, cpython))]
    /\ UNCHANGED << cpython, moduleDef, last_module_index, initing, handles,
                    last, ncalls >>

\* the exception object is made and PyArg_ParseTuple_parse_demo returns 0
parse_demo_raise(c) ==
    /\ c \in 1..Len(frames)
    /\ frames[c].pc = "raising"
    /\ OthersAtPython(c)
    /\ frames' = [frames EXCEPT ![c] = [@ EXCEPT !.pc = "converted"]]
    /\ UNCHANGED << cpython, moduleDef, last_module_index, initing, handles,
                    last, ncalls >>

\* the conversion failed: parse_demo returns NULL with the error set
parse_demo_abort(c) ==
    /\ c \in 1..Len(frames)
    /\ frames[c].pc = "converted"
    /\ frames[c].conv.ret = 0
    /\ frames' = [frames EXCEPT ![c] =
                     [@ EXCEPT !.out = Raised(frames[c].conv.exc),
                               !.pc = "returning"]]
    /\ UNCHANGED << cpython, moduleDef, last_module_index, initing, handles,
                    last, ncalls >>

\* the conversion succeeded: the parser runs and parse_demo returns its outcome
parse_demo_run(c) ==
    /\ c \in 1..Len(frames)
    /\ frames[c].pc = "converted"
    /\ frames[c].conv.ret /= 0
    /\ \E o \in ParserOutcomes :
          frames' = [frames EXCEPT ![c] =
                        [@ EXCEPT !.out = o, !.parsed = @ + 1,
                                  !.pc = "returning"]]
    /\ UNCHANGED << cpython, moduleDef, last_module_index, initing, handles,
                    last, ncalls >>

\* the interpreter hands what the bound function returned to the caller
Return(c) ==
    /\ c \in 1..Len(frames)
    /\ frames[c].pc = "returning"
    /\ last' = [frames[c] EXCEPT !.ret = frames[c].out, !.pc = "idle"]
    /\ frames' = [frames EXCEPT ![c] = Gone]
    /\ UNCHANGED << cpython, moduleDef, last_module_index, initing, handles,
                    ncalls >>

\* the caller lets go of what the last call gave it
Forget ==
    /\ InFlight = {}
    /\ last /= NoCall
    /\ last' = NoCall
    /\ UNCHANGED << cpython, moduleDef, last_module_index, initing, handles,
                    frames, ncalls >>

\* A call that begins while no invocation is under way, and once the caller
\* has let go of what the call before gave it, passes any tuple of ArgTuples;
\* a call of parse begins while invocations are under way when their tuples
\* and its own are of NestedArgTuples.
Next ==
    \/ PyInit_wrapper
    \/ PyInit_wrapper_return
    \/ Forget
    \/ /\ InFlight = {} /\ initing = 0 /\ last = NoCall /\ ncalls < MaxCalls
       /\ \E h \in 1..Len(handles), a \in ArgTuples \cup NestedArgTuples :
             Call(h, "parse", a, FALSE)
    \/ /\ InFlight /= {} \/ initing > 0
       /\ \A c \in InFlight : frames[c].args \in NestedArgTuples
       /\ PythonRuns /\ ncalls < MaxCalls
       /\ \E h \in 1..Len(handles), a \in NestedArgTuples :
             Call(h, "parse", a, FALSE)
    \/ /\ InFlight = {} /\ last = NoCall /\ PythonRuns /\ ncalls < MaxCalls
       /\ \E h \in 1..Len(handles) : Call(h, "parse", BaseArgs, TRUE)
    \/ /\ InFlight = {} /\ last = NoCall /\ PythonRuns /\ ncalls < MaxCalls
       /\ \E h \in 1..Len(handles) : Call(h, "parse_demo", BaseArgs, FALSE)
    \/ \E h \in 1..Len(handles) : CallAgain(h)
    \/ \E c \in 1..Len(frames) : parse_demo_convert(c)
    \/ \E c \in 1..Len(frames) : parse_demo_resume(c)
    \/ \E c \in 1..Len(frames) : parse_demo_raise(c)
    \/ \E c \in 1..Len(frames) : parse_demo_abort(c)
    \/ \E c \in 1..Len(frames) : parse_demo_run(c)
    \/ \E c \in 1..Len(frames) : Return(c)

Spec == Init /\ [][Next]_vars

(* ------------------------------ properties ----------------------------- *)

\* every call the state holds: the invocations under way and the call that
\* was over last
Calls == { frames[c] : c \in 1..Len(frames) } \cup { last }

\* the calls whose conversion is just over
ConvertedCalls == { r \in Calls : r.pc = "converted" }

\* text that "s" can hand over: encodable, and no NUL inside
ValidText(cps) == \A k \in 1..Len(cps) : ~IsSurrogate(cps[k]) /\ cps[k] /= 0

\* whether Python value v is of the primitive that declared type ctype stands
\* for (a bool is an int in Python), and in its range
WellTypedFor(v, ctype) ==
    CASE ctype = "char*" -> v.t = "str" /\ ValidText(v.d)
      [] ctype = "bool" -> v.t = "bool"
      [] OTHER -> v.t = "int" /\ FitsSigned(v.neg, v.d, SizeOf(ctype))

WellTyped(a) ==
    /\ Len(a) = Len(DestType)
    /\ \A i \in 1..Len(DestType) : WellTypedFor(a[i], DestType[i])

\* a tuple of values of the built-in types, none of which runs Python code
BuiltIn(a) == \A i \in 1..Len(a) : a[i] \notin ObjectVals

\* whether the type of v disagrees with the primitive of ctype
Disagrees(v, ctype) ==
    CASE ctype = "char*" -> v.t /= "str"
      [] ctype = "bool" -> v.t /= "bool"
      [] OTHER -> v.t \notin {"int", "bool"}

\* whether destination i, read as its declared type, holds the value of a[i]
DeliveredEquals(a, m, i) ==
    IF DestType[i] = "char*"
    THEN CString(BufferAt(Observed(m)[i][1])) = PyUnicode_AsUTF8(a[i].d)
    ELSE Observed(m)[i] = Twos(a[i].neg, a[i].d, SizeOf(DestType[i]))

\* C1: once the conversion of a well-typed nine-tuple into destinations that
\* held zero bytes is over, it succeeded and each of the nine destinations
\* holds the value the caller passed at its position.
C1_ForwardsNineValues ==
    \A r \in ConvertedCalls :
        WellTyped(r.args) /\ r.fill = 0
            => /\ r.conv.ret = 1
               /\ \A i \in 1..Len(DestType) : DeliveredEquals(r.args, r.mem, i)

\* C2: an invocation of parse_demo with a tuple that has not exactly nine
\* elements never waits for the Python code of an argument, and from the
\* moment its conversion has failed, whatever ran in between, until the call
\* is over, the conversion's outcome is a TypeError raised at no unit, no
\* argument's code has answered, and every destination holds what it held at
\* first; a successful conversion had exactly nine positional arguments; and
\* a call with keyword arguments never converts.
C2_ExactlyNineArgs ==
    \A r \in Calls :
        /\ Len(r.args) /= 9 /\ r.entered = 1 /\ r.pc /= "entered"
               => /\ r.pc /= "python"
                  /\ r.conv = [ret |-> 0, exc |-> "TypeError", pos |-> 0]
                  /\ r.ans = NoAnswer
                  /\ r.mem = Locals(r.fill)
        /\ r.conv.ret = 1 => Len(r.args) = 9 /\ ~r.kw
        /\ r.kw => r.conv = NoConv /\ r.pc = "idle"

\* the conversion of the empty tuple has failed, and while it made its
\* exception a later call of parse ran from its beginning to its end
C2_Witness ==
    \E r \in ConvertedCalls :
        /\ Len(r.args) = 0 /\ r.conv.ret = 0 /\ r.fill = 170
        /\ last.pc = "idle" /\ last.entered = 1 /\ last.id > r.id

\* C3 as claimed: a conversion of a nine-tuple in which some value's type
\* disagrees with the declared primitive of its position fails.
C3_TypeMismatchRejected ==
    \A r \in ConvertedCalls :
        Len(r.args) = 9 /\ (\E i \in 1..9 : Disagrees(r.args[i], DestType[i]))
            => r.conv.ret = 0

\* whether v is of a type that the code of a string or integer position
\* refuses under CPython cp: not a str at a string position; at an integer
\* position neither an int nor a bool nor an object whose __index__ or
\* __int__ this CPython calls
Refused(v, ctype, cp) ==
    IF ctype = "char*" THEN v.t /= "str"
    ELSE v.t \notin {"int", "bool"} /\ ~RunsPython("b", v, cp)

\* the error the conversion at an integer position ends with when the code of
\* the argument answered ans and the conversion failed
IntegerError(ans) ==
    IF ans.exc /= "none" THEN ans.exc
    ELSE IF ans.t /= "int" THEN "TypeError"
    ELSE "OverflowError"

\* C3 as amended: a conversion of a nine-tuple fails when a value at a string
\* position is not a str, or a value at an integer position is neither an
\* int, a bool, nor an object whose __index__ or __int__ this CPython calls.
\* A failure is at one of the nine positions.  At a boolean position no type
\* of value fails: a conversion fails there only for an object whose truth
\* test runs Python code and fails, with the error of the truth test: what
\* __bool__ or __len__ raised, a TypeError when __bool__ returned something
\* other than a bool or __len__ something other than an int, a ValueError
\* when __len__ returned a negative int, an OverflowError when it returned an
\* int too large.  At an integer position with an object whose method is
\* called, a failure carries what the method raised, a TypeError when it
\* returned something other than an int, and an OverflowError otherwise.
C3_MismatchRejectedExceptBooleans ==
    \A r \in ConvertedCalls :
        Len(r.args) = 9
            => /\ (\E i \in 1..9 :
                      /\ DestType[i] /= "bool"
                      /\ Refused(r.args[i], DestType[i], cpython))
                      => r.conv.ret = 0
               /\ r.conv.ret = 0 => r.conv.pos \in 1..9
               /\ r.conv.ret = 0 /\ DestType[r.conv.pos] = "bool"
                      => /\ r.args[r.conv.pos].t \in {"object", "lenobj"}
                         /\ PyObject_IsTrue(r.args[r.conv.pos], r.ans).exc
                                = r.conv.exc
               /\ (/\ r.conv.ret = 0
                   /\ DestType[r.conv.pos] \in {"int", "int64_t"}
                   /\ RunsPython(Format[r.conv.pos], r.args[r.conv.pos],
                                 cpython))
                      => r.conv.exc = IntegerError(r.ans)

\* a conversion failed at parse_frames because the __len__ of the object
\* there returned a negative int
C3_Witness ==
    \E r \in ConvertedCalls :
        /\ Len(r.args) = 9 /\ r.args[3] = PyLenOnly
        /\ r.conv.ret = 0 /\ r.conv.pos = 3 /\ r.conv.exc = "ValueError"

C5_ResultPassedThrough ==
    last.pc = "idle" /\ last.callee = "parse" /\ ~last.kw
        => last.ret = last.out /\ last.out /= Nothing

C5_Witness ==
    /\ last.pc = "idle" /\ last.parsed = 1
    /\ last.out = Raised("ParserError") /\ last.ret = Raised("ParserError")

\* the process-wide state an initialization can reach
ProcessState == <<moduleDef, last_module_index>>

Usable(mod) == Dispatch(mod, "parse", BaseArgs, FALSE).invoke

\* the invocations of PyInit_wrapper that have started
Started == Len(handles) + initing

\* C6 as claimed: every initialization yields a module object whose parse can
\* be called, and no step of an initialization, its start or its return,
\* changes process-wide state.
C6_InitChangesNothing ==
    [][Started' > Started \/ Len(handles') > Len(handles)
           => /\ ProcessState' = ProcessState
              /\ Len(handles') > Len(handles)
                     => Usable(handles'[Len(handles')])]_vars

\* C6 as amended: every initialization yields a module object whose parse can
\* be called, and process-wide state changes only where the initialization
\* that starts first starts: no initialization that starts later changes it,
\* whichever of them returns first.
C6_LaterInitsChangeNothing ==
    [][/\ Len(handles') > Len(handles) => Usable(handles'[Len(handles')])
       /\ ProcessState' /= ProcessState => Started = 0 /\ Started' = 1]_vars

C6_Witness ==
    /\ Len(handles) >= 2 /\ initing = 0
    /\ Usable(handles[1]) /\ Usable(handles[2])
    /\ moduleDef.m_index = 1 /\ last_module_index = 1

\* C7: the module definition and every module object made from it are named
\* wrapper, and every module object has exactly one function: parse, bound to
\* parse_demo with METH_VARARGS.
C7_OnlyParseRegistered ==
    /\ moduleDef.m_name = "wrapper"
    /\ \A k \in 1..Len(handles) :
          /\ handles[k].name = "wrapper"
          /\ handles[k].functions =
                << [ml_name |-> "parse", ml_meth |-> "parse_demo",
                    ml_flags |-> "METH_VARARGS"] >>

C7_Witness == Len(handles) >= 2 /\ last.ret = Raised("AttributeError")

\* C8: once the conversion of a well-typed nine-tuple is over, it succeeded and
\* the int parse_rate holds the integer passed at position 2.
C8_ParseRateAsInt ==
    \A r \in ConvertedCalls :
        WellTyped(r.args)
            => /\ r.conv.ret = 1
               /\ Observed(r.mem)[2]
                    = Twos(r.args[2].neg, r.args[2].d, SizeOf("int"))

\* C9: a call that repeats the argument tuple of the call before it, a tuple
\* of values of the built-in types, has the same conversion outcome: the same
\* return value and error and, when the conversion succeeds, the same nine
\* values.
C9_EqualArgsEqualOutcome ==
    \A r \in ConvertedCalls :
        r.again /\ BuiltIn(r.args)
            => /\ r.conv = r.prev.conv
               /\ r.conv.ret = 1 => Observed(r.mem) = r.prev.vals

\* C10: a conversion that succeeded stored, through every destination, as many
\* bytes as the destination's declared type has, and left the bytes behind
\* every destination as they were.
C10_WritesOnlyDestinations ==
    \A r \in ConvertedCalls :
        r.conv.ret = 1
            => \A i \in 1..Len(DestType) :
                  /\ SizeOf(UnitType(Format[i])) = SizeOf(DestType[i])
                  /\ Behind(r.mem)[i] = Behind(Locals(r.fill))[i]

====
